---- MODULE Spec2Model ----
(***************************************************************************)
(* Model of src/bukaninara.py: a Streamlit script that ingests an uploaded *)
(* text file into a Pinecone index (one vector per non-blank line) and     *)
(* answers chat questions from the nearest stored lines.                   *)
(*                                                                         *)
(* A text is a sequence of one-character strings.  One script run is a     *)
(* walk of pc through  upload -> [list -> create -> poll -> embed] ->      *)
(* chat -> cache -> idle;  an uncaught exception ends the run at once.     *)
(***************************************************************************)
EXTENDS Integers, Sequences, FiniteSets, TLC

\* ------------------------------------------------------------------ bounds
MaxLen == 3          \* longest uploaded text of the chunking specification
MaxFileLen == 2      \* longest uploaded text of the session specification
MaxUploads == 2      \* "Proses dan Unggah" clicks in one session
MaxQuestions == 2    \* chat questions in one session

\* ------------------------------------------------------- program constants
TopK == 3

Chars == {"a", "b", " ", "\n"}
FileChars == {"a", "\n"}
FileNames == {"f.txt"}
Prompts == {<<"q">>}
Generated == <<"ans">>
Apology == <<"Maaf, saya tidak bisa menjawab pertanyaan ini saat ini.">>

TextsUpTo(S, n) == UNION {[1..k -> S] : k \in 0..n}

\* ------------------------------------------------------ Python str helpers
IsSpace(c) == c \in {" ", "\n"}

RECURSIVE LStrip(_)
LStrip(s) ==
  IF s # <<>> /\ IsSpace(Head(s)) THEN LStrip(Tail(s)) ELSE s

RECURSIVE RStrip(_)
RStrip(s) ==
  IF s # <<>> /\ IsSpace(s[Len(s)]) THEN RStrip(SubSeq(s, 1, Len(s) - 1)) ELSE s

Strip(s) == RStrip(LStrip(s))

\* str.split('\n'): always at least one piece, pieces may be empty.
RECURSIVE Split(_)
Split(s) ==
  IF \E k \in 1..Len(s) : s[k] = "\n"
  THEN LET k == CHOOSE j \in 1..Len(s) :
                  s[j] = "\n" /\ \A h \in 1..(j - 1) : s[h] # "\n"
       IN  <<SubSeq(s, 1, k - 1)>> \o Split(SubSeq(s, k + 1, Len(s)))
  ELSE <<s>>

\* "\n".join(parts)
RECURSIVE Join(_)
Join(parts) ==
  IF parts = <<>> THEN <<>>
  ELSE IF Len(parts) = 1 THEN parts[1]
  ELSE parts[1] \o <<"\n">> \o Join(Tail(parts))

\* ' '.join(id.split('-'))
IdWords(id) == [k \in 1..Len(id) |-> IF id[k] = "-" THEN " " ELSE id[k]]

\* ------------------------------------------------------ ingestion chunking
NonBlank(l) == Strip(l) # <<>>

\* texts = [line.strip() for line in file_content.split('\n') if line.strip()]
Texts(file_content) ==
  LET lines == Split(file_content)
      kept == SelectSeq(lines, NonBlank)
  IN  [k \in 1..Len(kept) |-> Strip(kept[k])]

\* An optional value is <<>> (key absent) or <<v>>.
Metadata(name, i) == [source |-> name, line |-> <<i>>, text |-> <<>>]

\* metadata_list = [{"source": name, "line": i} for i, _ in enumerate(texts)]
MetadataList(name, txs) == [k \in 1..Len(txs) |-> Metadata(name, k - 1)]

\* f"doc-{time.time()}-{i}"
DocId(t, i) == <<"doc", "-", ToString(t), "-", ToString(i)>>

VectorRecord(t, i, txs, metas) ==
  [id |-> DocId(t, i), values |-> txs[i + 1], metadata |-> metas[i + 1]]

\* --------------------------------------------------- context reconstruction
\* line 196: metadata['text'] if present, else ' '.join(id.split('-'))
FirstGuess(m) ==
  IF m.metadata.text # <<>> THEN m.metadata.text[1] ELSE IdWords(m.id)

\* line 215: match.metadata.get('text', match.id)
Fallback(m) ==
  IF m.metadata.text # <<>> THEN m.metadata.text[1] ELSE m.id

\* lines 206-213, one match: what the loop body appends (<<>>: nothing).
\* A negative index counts from the end of the list; an index below -len
\* raises IndexError, which line 212 catches.
CachedText(m, all_lines) ==
  LET ln == m.metadata.line
      n == Len(all_lines)
  IN  IF ln # <<>> /\ ln[1] < n
      THEN IF ln[1] >= 0 THEN <<all_lines[ln[1] + 1]>>
           ELSE IF ln[1] >= -n THEN <<all_lines[n + ln[1] + 1]>>
           ELSE <<>>
      ELSE IF m.metadata.text # <<>> THEN <<m.metadata.text[1]>>
      ELSE <<>>

\* lines 204-213
RECURSIVE CacheBranch(_, _)
CacheBranch(ms, all_lines) ==
  IF ms = <<>> THEN <<>>
  ELSE CachedText(Head(ms), all_lines) \o CacheBranch(Tail(ms), all_lines)

\* line 202: uploaded_file and 'text_cache' in session_state and name in cache
CacheHit(file, cache) == file # <<>> /\ cache[file[1].name] # <<>>

\* lines 196-215, for a non-empty result list
ContextTexts(results, file, cache) ==
  LET first == [k \in 1..Len(results) |-> FirstGuess(results[k])]
  IN  IF CacheHit(file, cache)
      THEN CacheBranch(results, Split(cache[file[1].name][1]))
      ELSE IF results # <<>>
      THEN [k \in 1..Len(results) |-> Fallback(results[k])]
      ELSE first

\* lines 194-217
Context(results, file, cache) ==
  IF results # <<>> THEN Join(ContextTexts(results, file, cache)) ELSE <<>>

\* ------------------------------------------------------------ the gateways
\* `fails` is the set of external calls that raise if they are made.
\* get_embedding, lines 32-42: None when the call raises, and when the
\* client is None (the attribute access raises inside the try).
EmbeddingFails(embedding_client, fails) ==
  ~embedding_client \/ "embed" \in fails

QueryOutcome(raised, matches, called, failed) ==
  [raised |-> raised, matches |-> matches, called |-> called,
   failed |-> failed]

\* query_pinecone without the `if query_embedding:` test of line 96
QueryPineconeUnguarded(client, embedding_client, exists, fails, matches) ==
  IF ~client
  THEN QueryOutcome(FALSE, <<>>, {}, {})
  ELSE IF "list_indexes" \in fails
  THEN QueryOutcome(TRUE, <<>>, {"list_indexes"}, {"list_indexes"})
  ELSE IF ~exists
  THEN QueryOutcome(FALSE, <<>>, {"list_indexes"}, {})
  ELSE LET emb == IF EmbeddingFails(embedding_client, fails)
                  THEN {"embed"} ELSE {}
       IN  IF "query" \in fails
           THEN QueryOutcome(FALSE, <<>>, {"list_indexes", "embed", "query"},
                             emb \cup {"query"})
           ELSE QueryOutcome(FALSE, matches,
                             {"list_indexes", "embed", "query"}, emb)

\* lines 84-103.  raised: an exception leaves the function.
QueryPinecone(client, embedding_client, exists, fails, matches) ==
  IF ~client
  THEN QueryOutcome(FALSE, <<>>, {}, {})
  ELSE IF "list_indexes" \in fails
  THEN QueryOutcome(TRUE, <<>>, {"list_indexes"}, {"list_indexes"})
  ELSE IF ~exists
  THEN QueryOutcome(FALSE, <<>>, {"list_indexes"}, {})
  ELSE IF EmbeddingFails(embedding_client, fails)
  THEN QueryOutcome(FALSE, <<>>, {"list_indexes", "embed"}, {"embed"})
  ELSE IF "query" \in fails
  THEN QueryOutcome(FALSE, <<>>, {"list_indexes", "embed", "query"},
                    {"query"})
  ELSE QueryOutcome(FALSE, matches, {"list_indexes", "embed", "query"}, {})

\* get_answer_from_openai whose except branch returns nothing
GetAnswerNoFallback(fails) ==
  IF "complete" \in fails THEN <<>> ELSE Generated

\* lines 105-122
GetAnswerFromOpenai(fails) ==
  IF "complete" \in fails THEN Apology ELSE Generated

Match(r) == [id |-> r.id, metadata |-> r.metadata]

Min(a, b) == IF a < b THEN a ELSE b

\* index.query(top_k=3, include_metadata=True): at most TopK stored records,
\* no record twice, in the order the service ranks them.
PossibleMatches(recs) ==
  {[k \in 1..Len(s) |-> Match(s[k])] :
     s \in {q \in UNION {[1..n -> recs] : n \in 0..Min(TopK, Cardinality(recs))} :
              \A a, b \in 1..Len(q) : a # b => q[a] # q[b]}}

\* Records written to the same index by other tools: they carry no `line`.
ForeignRecords ==
  {[id |-> <<"ext", "-", "1">>, values |-> <<"t">>,
    metadata |-> [source |-> "other", line |-> <<>>, text |-> <<<<"t">>>>]],
   [id |-> <<"ext", "-", "2">>, values |-> <<"u">>,
    metadata |-> [source |-> "other", line |-> <<>>, text |-> <<>>]]}

\* ------------------------------------------------------------------- state
VARIABLES
  openai_api_key,           \* sidebar: key present
  pinecone_cfg,             \* sidebar: pinecone_api_key and pinecone_environment
  openai_embedding_client,  \* TRUE: a client, FALSE: None
  pinecone_client,
  uploaded_file,            \* <<>> or <<[name, data]>>
  consumed,                 \* this run's stream of uploaded_file was read
  button,                   \* st.button(...) of this run
  prompt,                   \* st.chat_input(...) of this run: <<>> or <<p>>
  messages,                 \* st.session_state.messages
  text_cache,               \* st.session_state.text_cache: name -> <<>> or <<text>>
  index_exists,             \* the service: index_name is among list_indexes()
  store,                    \* the service: records of the index
  clock,                    \* calls of upsert_to_pinecone so far (time.time())
  pc,
  outcome,                  \* of the last run: "none", "ok", "raised"
  texts, metadata_list,     \* upsert_to_pinecone: arguments
  i, vectors_to_upsert,     \* upsert_to_pinecone: loop state
  created,                  \* this call created the index
  ready_seen,               \* describe_index reported ready in this call
  emb_failed,               \* chunks (0-based) whose embedding call failed
  batch,                    \* <<>> or <<vectors passed to index.upsert>>
  pinecone_results,         \* chat handler locals
  context_texts, context,
  called, failed            \* external calls made / raised in this run

vars ==
  <<openai_api_key, pinecone_cfg, openai_embedding_client, pinecone_client,
    uploaded_file, consumed, button, prompt, messages, text_cache,
    index_exists, store, clock, pc, outcome, texts, metadata_list, i,
    vectors_to_upsert, created, ready_seen, emb_failed, batch,
    pinecone_results, context_texts, context, called, failed>>

session == <<messages, text_cache>>
service == <<index_exists, store>>
sidebar == <<openai_api_key, pinecone_cfg>>
clients == <<openai_embedding_client, pinecone_client>>
widgets == <<uploaded_file, button, prompt>>
upsertLocals ==
  <<texts, metadata_list, i, vectors_to_upsert, created, ready_seen,
    emb_failed, batch>>
chatLocals == <<pinecone_results, context_texts, context>>

\* uploaded_file.read(): the rest of the stream
Read(file, isConsumed) == IF isConsumed THEN <<>> ELSE file[1].data

FreshLocals ==
  /\ texts = <<>> /\ metadata_list = <<>> /\ i = 0
  /\ vectors_to_upsert = <<>> /\ created = FALSE /\ ready_seen = FALSE
  /\ emb_failed = {} /\ batch = <<>>
  /\ pinecone_results = <<>> /\ context_texts = <<>> /\ context = <<>>
  /\ called = {} /\ failed = {}

\* The locals of a script run as a new run finds them.
ResetLocals ==
  /\ texts' = <<>> /\ metadata_list' = <<>> /\ i' = 0
  /\ vectors_to_upsert' = <<>> /\ created' = FALSE /\ ready_seen' = FALSE
  /\ emb_failed' = {} /\ batch' = <<>>
  /\ pinecone_results' = <<>> /\ context_texts' = <<>> /\ context' = <<>>
  /\ called' = {} /\ failed' = {}

Init ==
  /\ openai_api_key = FALSE /\ pinecone_cfg = FALSE
  /\ openai_embedding_client = FALSE /\ pinecone_client = FALSE
  /\ uploaded_file = <<>> /\ consumed = FALSE
  /\ button = FALSE /\ prompt = <<>>
  /\ messages = <<>>
  /\ text_cache = [n \in FileNames |-> <<>>]
  /\ index_exists \in BOOLEAN
  /\ store \in (IF index_exists THEN {{}, ForeignRecords} ELSE {{}})
  /\ clock = 0
  /\ pc = "idle" /\ outcome = "none"
  /\ FreshLocals

\* ------------------------------------------------------------ script runs
\* Every widget event reruns the script from the top with fresh locals and a
\* fresh stream for the uploaded file; lines 131-142 build the clients (a
\* constructor that raises leaves None).
BeginRun(file, btn, prm, oa, pcfg) ==
  /\ pc = "idle"
  /\ uploaded_file' = file /\ button' = btn /\ prompt' = prm
  /\ openai_api_key' = oa /\ pinecone_cfg' = pcfg
  /\ \E ce, cp \in BOOLEAN :
       /\ openai_embedding_client' = (oa /\ ce)
       /\ pinecone_client' = (pcfg /\ cp)
  /\ consumed' = FALSE
  /\ pc' = "upload" /\ outcome' = "none"
  /\ ResetLocals
  /\ UNCHANGED <<session, service, clock>>

\* st.file_uploader: the user picks a file
SelectFile ==
  \E n \in FileNames, d \in TextsUpTo(FileChars, MaxFileLen) :
    BeginRun(<<[name |-> n, data |-> d]>>, FALSE, <<>>,
             openai_api_key, pinecone_cfg)

\* st.file_uploader: the user removes the file
RemoveFile ==
  /\ uploaded_file # <<>>
  /\ BeginRun(<<>>, FALSE, <<>>, openai_api_key, pinecone_cfg)

\* st.sidebar.text_input: the user edits a key
EditSidebar ==
  \E oa, pcfg \in BOOLEAN :
    /\ <<oa, pcfg>> # <<openai_api_key, pinecone_cfg>>
    /\ BeginRun(uploaded_file, FALSE, <<>>, oa, pcfg)

\* st.button("Proses dan Unggah ke Pinecone"), drawn only under line 151
ClickProcess ==
  /\ uploaded_file # <<>>
  /\ clock < MaxUploads
  /\ BeginRun(uploaded_file, TRUE, <<>>, openai_api_key, pinecone_cfg)

Questions == Len(SelectSeq(messages, LAMBDA m : m.role = "user"))

\* st.chat_input: the user submits a question
SubmitPrompt ==
  /\ Questions < MaxQuestions
  /\ \E p \in Prompts :
       BeginRun(uploaded_file, FALSE, <<p>>, openai_api_key, pinecone_cfg)

\* An uncaught exception of external call c ends the script run.
Raise(c) ==
  /\ pc' = "idle" /\ outcome' = "raised"
  /\ called' = called \cup {c} /\ failed' = failed \cup {c}

\* lines 151-167
UploadSection ==
  /\ pc = "upload"
  /\ IF uploaded_file # <<>> /\ button
          /\ openai_embedding_client /\ pinecone_client
     THEN LET file_content == Read(uploaded_file, consumed)
              txs == Texts(file_content)
          IN  /\ consumed' = TRUE
              /\ texts' = txs
              /\ metadata_list' = MetadataList(uploaded_file[1].name, txs)
              /\ IF txs # <<>>
                 THEN pc' = "list" /\ clock' = clock + 1
                 ELSE pc' = "chat" /\ clock' = clock
     ELSE /\ pc' = "chat"
          /\ UNCHANGED <<consumed, texts, metadata_list, clock>>
  /\ UNCHANGED <<sidebar, clients, widgets, session, service, outcome, i,
                 vectors_to_upsert, created, ready_seen, emb_failed, batch,
                 chatLocals, called, failed>>

\* upsert_to_pinecone, lines 46-50
UpsertListIndexes ==
  /\ pc = "list"
  /\ IF ~pinecone_client
     THEN pc' = "chat" /\ UNCHANGED <<outcome, called, failed>>
     ELSE \/ Raise("list_indexes")
          \/ /\ pc' = (IF index_exists THEN "embed" ELSE "create")
             /\ called' = called \cup {"list_indexes"}
             /\ UNCHANGED <<outcome, failed>>
  /\ UNCHANGED <<sidebar, clients, widgets, consumed, session, service,
                 clock, upsertLocals, chatLocals>>

\* upsert_to_pinecone, lines 51-57
UpsertCreateIndex ==
  /\ pc = "create"
  /\ \/ Raise("create_index") /\ UNCHANGED <<index_exists, created>>
     \/ /\ index_exists' = TRUE /\ created' = TRUE
        /\ pc' = "poll"
        /\ called' = called \cup {"create_index"}
        /\ UNCHANGED <<outcome, failed>>
  /\ UNCHANGED <<sidebar, clients, widgets, consumed, session, store, clock,
                 texts, metadata_list, i, vectors_to_upsert, ready_seen,
                 emb_failed, batch, chatLocals>>

\* upsert_to_pinecone, lines 59-60: one describe_index call of the loop
UpsertPoll ==
  /\ pc = "poll"
  /\ \/ Raise("describe_index") /\ UNCHANGED ready_seen
     \/ /\ called' = called \cup {"describe_index"}
        /\ UNCHANGED <<outcome, failed>>
        /\ \/ pc' = "poll" /\ UNCHANGED ready_seen      \* time.sleep(1)
           \/ pc' = "embed" /\ ready_seen' = TRUE
  /\ UNCHANGED <<sidebar, clients, widgets, consumed, session, service,
                 clock, texts, metadata_list, i, vectors_to_upsert, created,
                 emb_failed, batch, chatLocals>>

\* the loop of lines 65-72 with a failed embedding ending it (a `break`)
UpsertEmbedAbort ==
  /\ pc = "embed"
  /\ i < Len(texts)
  /\ called' = called \cup {"embed"}
  /\ \/ /\ vectors_to_upsert' =
             Append(vectors_to_upsert,
                    VectorRecord(clock, i, texts, metadata_list))
        /\ i' = i + 1
        /\ UNCHANGED <<emb_failed, failed>>
     \/ /\ emb_failed' = emb_failed \cup {i}
        /\ failed' = failed \cup {"embed"}
        /\ i' = Len(texts)
        /\ UNCHANGED vectors_to_upsert
  /\ UNCHANGED <<sidebar, clients, widgets, consumed, session, service,
                 clock, pc, outcome, texts, metadata_list, created,
                 ready_seen, batch, chatLocals>>

\* upsert_to_pinecone, lines 65-72: one iteration; get_embedding (lines
\* 32-42) returns None when the call raises.
UpsertEmbed ==
  /\ pc = "embed"
  /\ i < Len(texts)
  /\ called' = called \cup {"embed"}
  /\ \/ /\ vectors_to_upsert' =
             Append(vectors_to_upsert,
                    VectorRecord(clock, i, texts, metadata_list))
        /\ UNCHANGED <<emb_failed, failed>>
     \/ /\ emb_failed' = emb_failed \cup {i}
        /\ failed' = failed \cup {"embed"}
        /\ UNCHANGED vectors_to_upsert
  /\ i' = i + 1
  /\ UNCHANGED <<sidebar, clients, widgets, consumed, session, service,
                 clock, pc, outcome, texts, metadata_list, created,
                 ready_seen, batch, chatLocals>>

Range(s) == {s[k] : k \in 1..Len(s)}

\* upsert_to_pinecone, lines 74-82
UpsertBatch ==
  /\ pc = "embed"
  /\ i = Len(texts)
  /\ pc' = "chat"
  /\ IF vectors_to_upsert # <<>>
     THEN /\ batch' = <<vectors_to_upsert>>
          /\ called' = called \cup {"upsert"}
          /\ \/ store' = store \cup Range(vectors_to_upsert)
                /\ UNCHANGED failed
             \/ failed' = failed \cup {"upsert"} /\ UNCHANGED store
     ELSE UNCHANGED <<batch, called, failed, store>>
  /\ UNCHANGED <<sidebar, clients, widgets, consumed, messages, text_cache,
                 index_exists, clock, outcome, texts, metadata_list, i,
                 vectors_to_upsert, created, ready_seen, emb_failed,
                 chatLocals>>

ChatCalls == {"list_indexes", "embed", "query", "complete"}

UserMessage(p) == [role |-> "user", content |-> p]
AssistantMessage(a) == [role |-> "assistant", content |-> a]

\* lines 182-227
ChatSection ==
  /\ pc = "chat"
  /\ IF prompt = <<>>
     THEN /\ pc' = "cache"
          /\ UNCHANGED <<messages, outcome, chatLocals, called, failed>>
     ELSE LET asked == Append(messages, UserMessage(prompt[1]))
          IN  IF openai_api_key /\ pinecone_cfg
              THEN \E fails \in SUBSET ChatCalls, ms \in PossibleMatches(store) :
                     LET q == QueryPinecone(pinecone_client,
                                            openai_embedding_client,
                                            index_exists, fails, ms)
                         answer == GetAnswerFromOpenai(fails)
                     IN  IF q.raised
                         THEN /\ messages' = asked
                              /\ pc' = "idle" /\ outcome' = "raised"
                              /\ called' = q.called
                              /\ failed' = q.failed
                              /\ UNCHANGED chatLocals
                         ELSE /\ pinecone_results' = q.matches
                              /\ context_texts' =
                                   (IF q.matches # <<>>
                                    THEN ContextTexts(q.matches, uploaded_file,
                                                      text_cache)
                                    ELSE <<>>)
                              /\ context' = Context(q.matches, uploaded_file,
                                                    text_cache)
                              /\ messages' =
                                   Append(asked, AssistantMessage(answer))
                              /\ called' = q.called \cup {"complete"}
                              /\ failed' = q.failed \cup ({"complete"} \cap fails)
                              /\ pc' = "cache"
                              /\ UNCHANGED outcome
              ELSE /\ messages' = asked
                   /\ pc' = "cache"
                   /\ UNCHANGED <<outcome, chatLocals, called, failed>>
  /\ UNCHANGED <<sidebar, clients, widgets, consumed, text_cache, service,
                 clock, upsertLocals>>

\* lines 233-236, then the script ends and its locals are gone
CacheSection ==
  /\ pc = "cache"
  /\ IF uploaded_file # <<>>
     THEN /\ text_cache' =
               [text_cache EXCEPT ![uploaded_file[1].name] =
                                     <<Read(uploaded_file, consumed)>>]
          /\ consumed' = TRUE
     ELSE UNCHANGED <<text_cache, consumed>>
  /\ pc' = "idle" /\ outcome' = "ok"
  /\ ResetLocals
  /\ UNCHANGED <<sidebar, clients, widgets, messages, service, clock>>

Next ==
  \/ SelectFile
  \/ RemoveFile
  \/ EditSidebar
  \/ ClickProcess
  \/ SubmitPrompt
  \/ UploadSection
  \/ UpsertListIndexes
  \/ UpsertCreateIndex
  \/ UpsertPoll
  \/ UpsertEmbed
  \/ UpsertBatch
  \/ ChatSection
  \/ CacheSection

Spec == Init /\ [][Next]_vars

\* ----------------------------------------------- the ingestion pipeline alone
\* The session at the click on "Proses dan Unggah": the run of the file's
\* selection has cached its text (line 236), both keys are set.
InitIngest ==
  /\ openai_api_key = TRUE /\ pinecone_cfg = TRUE
  /\ openai_embedding_client \in BOOLEAN /\ pinecone_client \in BOOLEAN
  /\ \E n \in FileNames, d \in TextsUpTo(Chars, MaxLen) :
       /\ uploaded_file = <<[name |-> n, data |-> d]>>
       /\ text_cache = [m \in FileNames |-> IF m = n THEN <<d>> ELSE <<>>]
  /\ consumed = FALSE
  /\ button = TRUE /\ prompt = <<>>
  /\ messages = <<>>
  /\ index_exists \in BOOLEAN
  /\ store = {}
  /\ clock = 0
  /\ pc = "upload" /\ outcome = "none"
  /\ FreshLocals

NextIngest ==
  \/ UploadSection
  \/ UpsertListIndexes
  \/ UpsertCreateIndex
  \/ UpsertPoll
  \/ UpsertEmbed
  \/ UpsertBatch
  \/ ChatSection
  \/ CacheSection
  \/ SubmitPrompt

SpecIngest == InitIngest /\ [][NextIngest]_vars

\* ------------------------------------------- a session that only asks questions
NextChat ==
  \/ SelectFile
  \/ RemoveFile
  \/ EditSidebar
  \/ SubmitPrompt
  \/ UploadSection
  \/ ChatSection
  \/ CacheSection

SpecChat == Init /\ [][NextChat]_vars

\* ------------------------------------------------------------------ claims
FileName == uploaded_file[1].name
FileData == uploaded_file[1].data

\* 0-based positions, in the newline split of a text, of its non-blank lines
NonBlankIdx(data) ==
  LET lines == Split(data)
  IN  SelectSeq([k \in 1..Len(lines) |-> k - 1],
                LAMBDA j : NonBlank(lines[j + 1]))

\* The chat handler of this run has run to its end, or raised.
ChatDone ==
  /\ prompt # <<>>
  /\ pc = "cache" \/ (pc = "idle" /\ outcome = "raised")

\* C1: with the upload's text in the cache, reconstruction for matches that
\* carry chunks' metadata (line below the cached line count) yields, match by
\* match, the line of the upload the chunk was built from.
C1_RoundTrip ==
  (/\ pc = "cache" /\ prompt # <<>>
   /\ CacheHit(uploaded_file, text_cache)
   /\ text_cache[FileName] = <<FileData>>
   /\ \A k \in 1..Len(pinecone_results) :
        /\ pinecone_results[k].metadata.line # <<>>
        /\ pinecone_results[k].metadata.line[1] < Len(Split(FileData)))
  => context_texts =
       [k \in 1..Len(pinecone_results) |->
          Split(FileData)[NonBlankIdx(FileData)
                            [pinecone_results[k].metadata.line[1] + 1] + 1]]

\* C2: the `line` of a chunk's metadata is the index of the chunk's line in
\* the unfiltered newline split of the uploaded text.
C2_LineIsOriginalIndex ==
  (uploaded_file # <<>> /\ metadata_list # <<>>)
  => \A k \in 1..Len(metadata_list) :
       metadata_list[k].line = <<NonBlankIdx(FileData)[k]>>

\* C3 as stated: when embedding the question fails, the completion call is
\* not made.
C3_NoCompletionAfterEmbedFailure ==
  (ChatDone /\ "embed" \in failed) => "complete" \notin called

\* C3 amended: when embedding the question fails, the index is not queried,
\* the match list and the context are empty, and the completion call is made
\* all the same, its answer recorded as the assistant's turn.
C3_EmbedFailureMeansEmptyContext ==
  (ChatDone /\ "embed" \in failed)
  => /\ pc = "cache"
     /\ "query" \notin called
     /\ pinecone_results = <<>> /\ context = <<>>
     /\ "complete" \in called
     /\ messages[Len(messages)].role = "assistant"

C3_Witness ==
  ChatDone /\ "embed" \in failed /\ "complete" \in called

\* C4: after a run that processed the second upload under one filename, the
\* cache holds that upload's full text, and a later question's reconstruction
\* reads only lines of it (or a match's own metadata text).
C4_CacheHoldsLatestUpload ==
  /\ (/\ pc = "idle" /\ outcome = "ok" /\ clock = 2
      /\ uploaded_file # <<>> /\ button
      /\ openai_embedding_client /\ pinecone_client)
     => text_cache[FileName] = <<FileData>>
  /\ (/\ pc = "cache" /\ prompt # <<>> /\ clock = 2
      /\ CacheHit(uploaded_file, text_cache))
     => \A k \in 1..Len(context_texts) :
          \/ context_texts[k] \in Range(Split(FileData))
          \/ \E m \in Range(pinecone_results) :
               m.metadata.text = <<context_texts[k]>>

\* C5: when the completion call raises, the run goes on, and the history
\* ends with the user's question followed by the apology as the assistant's
\* message.
C5_ApologyRecorded ==
  (ChatDone /\ "complete" \in failed)
  => /\ pc = "cache" /\ outcome # "raised"
     /\ openai_api_key /\ pinecone_cfg
     /\ Len(messages) >= 2
     /\ messages[Len(messages) - 1] = UserMessage(prompt[1])
     /\ messages[Len(messages)] = AssistantMessage(Apology)

C5_Witness ==
  ChatDone /\ "complete" \in failed /\ pinecone_results # <<>>

\* C6: when the index does not exist, or a vector-index call of the query
\* step fails, the query step returns no match instead of raising and the
\* completion call is still made, with empty context.
C6_QueryFailureIsEmptyMatchList ==
  (/\ ChatDone /\ openai_api_key /\ pinecone_cfg /\ pinecone_client
   /\ ~index_exists \/ failed \cap {"list_indexes", "query"} # {})
  => /\ outcome # "raised"
     /\ pinecone_results = <<>> /\ context = <<>>
     /\ "complete" \in called

\* C7: every batch under construction holds one record per chunk embedded so
\* far without failure, in chunk order, each with its chunk's metadata; the
\* loop passes over every chunk; the batch sent is the finished one, and what
\* the index then stores is that batch.
EmbeddedUpTo(n) ==
  LET ok == SelectSeq([k \in 1..n |-> k - 1], LAMBDA j : j \notin emb_failed)
  IN  [k \in 1..Len(ok) |->
         [id |-> DocId(clock, ok[k]),
          values |-> texts[ok[k] + 1],
          metadata |-> [source |-> FileName, line |-> <<ok[k]>>,
                        text |-> <<>>]]]

C7_BatchIsSuccessfulChunks ==
  /\ pc = "embed" => vectors_to_upsert = EmbeddedUpTo(i)
  /\ batch # <<>>
     => /\ i = Len(texts)
        /\ batch[1] = EmbeddedUpTo(Len(texts))
        /\ Len(batch[1]) + Cardinality(emb_failed) = Len(texts)
        /\ "upsert" \notin failed => store = Range(batch[1])

C7_Witness ==
  /\ batch # <<>> /\ "upsert" \notin failed
  /\ 0 \in emb_failed
  /\ \E r \in store : r.metadata.line = <<1>>

\* C8: no run ends in an uncaught exception.
C8_NothingEscapes == outcome # "raised"

\* C9: one text per match, in match order: the cached line when the cache
\* has the file and the match's line index is within it, else the metadata
\* text, else a placeholder made from the record id; the context is these
\* texts joined by newlines.
C9_OneTextPerMatch ==
  (pc = "cache" /\ prompt # <<>> /\ pinecone_results # <<>>)
  => /\ Len(context_texts) = Len(pinecone_results)
     /\ \A k \in 1..Len(pinecone_results) :
          LET m == pinecone_results[k]
              hit == CacheHit(uploaded_file, text_cache)
              all_lines == IF hit THEN Split(text_cache[FileName][1])
                           ELSE <<>>
          IN  IF /\ hit /\ m.metadata.line # <<>>
                 /\ m.metadata.line[1] >= 0
                 /\ m.metadata.line[1] < Len(all_lines)
              THEN context_texts[k] = all_lines[m.metadata.line[1] + 1]
              ELSE IF m.metadata.text # <<>>
              THEN context_texts[k] = m.metadata.text[1]
              ELSE context_texts[k] \in {m.id, IdWords(m.id)}
     /\ context = Join(context_texts)

\* C10: a call that created the index is outside the poll loop only after a
\* readiness check reported ready.
C10_PollLeftOnlyWhenReady ==
  (created /\ ~ready_seen) => pc = "poll"

====
